---- MODULE Spec2Model ----
(***************************************************************************)
(* Matching engine, order book index and internal ledger of the exchange.  *)
(*                                                                         *)
(* Amounts are Decimals in the source.  Here every balance / ledger amount *)
(* is an integer number of hundredths (Scale), order quantities and prices *)
(* are whole numbers, fee rates are whole percents and the market-buy      *)
(* buffer is 105 percent, so that all products are exact.                  *)
(* A NULL column (price of a market order, reference_id) is Null.          *)
(* Order ids are the creation sequence numbers, so ordering by created_at  *)
(* is ordering by id.                                                      *)
(*                                                                         *)
(* Spec is the engine with the ledger and the admin adjustments; SpecStops *)
(* adds the stop order service and its periodic trigger task; SpecCache    *)
(* adds the order book cache and its readers; SpecRace serves cancel       *)
(* requests in two steps, the read of the order and the call of            *)
(* cancel_order, with other requests in between; SpecStopRace does the     *)
(* same for cancel_stop_order.  SpecTicks feeds prices to the trailing     *)
(* stops; SpecMonitor adds the task that processes triggered orders.       *)
(* SpecEvalRace, SpecLedgerRace and SpecMatchRace run two transactions at  *)
(* a time (trigger evaluations, ledger operations, create_order requests): *)
(* in_flight holds what each has read, a row lock taken with               *)
(* select_for_update is held until the commit, and a transaction that      *)
(* needs a locked row waits.                                               *)
(***************************************************************************)
EXTENDS Integers, Sequences, FiniteSets, TLC

\* ---- bounds of the model ------------------------------------------------
MaxRequests == 3
MaxPrice == 2
MaxQty == 2
BaseFund == 2
QuoteFund == 4
MakerFeePct == 1
TakerFeePct == 2
MaxStopRequests == 1
TrailingPct == 50
MaxTrailingStops == 2
MaxEvaluations == 2
MaxPendingStops == 2
MaxLedgerOps == 3
MaxLedgerTxns == 2
MaxRaceOrders == 4
MaxCreateTxns == 2

\* ---- representation ------------------------------------------------------
Null == 0
Scale == 100
BufferPct == 105

Users == {"u1", "u2"}
Currencies == {"BASE", "QUOTE"}
base_currency == "BASE"
quote_currency == "QUOTE"
Sides == {"buy", "sell"}
Prices == 1..MaxPrice
Quantities == 1..MaxQty
TimeInForce == {"GTC", "IOC", "FOK"}
TrailingPercents == {TrailingPct}

\* the depths order books are requested with, and the depths invalidate_cache
\* deletes
Depths == {1, 10}
InvalidatedDepths == {10, 20, 50, 100}

\* balances .. last_price are the database rows; cache is the order book cache
\* (depth -> cached answer, for the depths that have one); fetched holds the
\* order objects that cancel requests have read and not yet acted on; last is
\* the last request served; in_flight holds the transactions that have begun
\* and not yet committed, with what they have read and the rows they lock
VARIABLES balances, ledger, orders, trades, last_price, cache, fetched,
          in_flight, last

vars == <<balances, ledger, orders, trades, last_price, cache, fetched,
          in_flight, last>>

\* The database rows an operation reads and writes, as one value, so that a
\* transaction that raises can be rolled back to the value it started from.
DB == [balances |-> balances, ledger |-> ledger, orders |-> orders,
       trades |-> trades, last_price |-> last_price]

Ok(db) == [err |-> "", db |-> db]
Fail(e, db) == [err |-> e, db |-> db]

Min(a, b) == IF a <= b THEN a ELSE b

\* a local name: F of the value v
Let(v, F(_)) == F(v)

\* the next statement F runs on the rows r has written, unless r raised
Then(r, F(_)) == IF r.err # "" THEN r ELSE F(r.db)

\* ---- Ledger ---------------------------------------------------------------
total(balance) == balance.available + balance.locked

LedgerEntry(user, currency, entry_type, amount, before, after, rtype, rid) ==
    [user |-> user, currency |-> currency, entry_type |-> entry_type,
     amount |-> amount, balance_before |-> before, balance_after |-> after,
     reference_type |-> rtype, reference_id |-> rid]

get_or_create_balance(db, user, currency) == db.balances[user][currency]

credit_balance(db, user, currency, amount, entry_type, rtype, rid) ==
    IF amount <= 0 THEN Fail("InvalidAmount", db)
    ELSE LET balance == get_or_create_balance(db, user, currency)
             after == [balance EXCEPT !.available = @ + amount, !.version = @ + 1]
         IN Ok([db EXCEPT !.balances[user][currency] = after,
                          !.ledger = Append(@, LedgerEntry(user, currency, entry_type,
                                       amount, balance.available, after.available, rtype, rid))])

debit_balance_unchecked(db, user, currency, amount, entry_type, rtype, rid) ==
    IF amount <= 0 THEN Fail("InvalidAmount", db)
    ELSE LET balance == get_or_create_balance(db, user, currency)
             after == [balance EXCEPT !.available = @ - amount, !.version = @ + 1]
         IN Ok([db EXCEPT !.balances[user][currency] = after,
                          !.ledger = Append(@, LedgerEntry(user, currency, entry_type,
                                       0 - amount, balance.available, after.available, rtype, rid))])

debit_balance(db, user, currency, amount, entry_type, rtype, rid) ==
    IF amount <= 0 THEN Fail("InvalidAmount", db)
    ELSE LET balance == get_or_create_balance(db, user, currency)
         IN IF balance.available < amount THEN Fail("InsufficientBalance", db)
            ELSE LET after == [balance EXCEPT !.available = @ - amount, !.version = @ + 1]
                 IN Ok([db EXCEPT !.balances[user][currency] = after,
                          !.ledger = Append(@, LedgerEntry(user, currency, entry_type,
                                       0 - amount, balance.available, after.available, rtype, rid))])

lock_balance_unchecked(db, user, currency, amount, rtype, rid) ==
    IF amount <= 0 THEN Fail("InvalidAmount", db)
    ELSE LET balance == get_or_create_balance(db, user, currency)
             after == [balance EXCEPT !.available = @ - amount,
                                      !.locked = @ + amount, !.version = @ + 1]
         IN Ok([db EXCEPT !.balances[user][currency] = after,
                          !.ledger = Append(@, LedgerEntry(user, currency, "order_lock",
                                       0 - amount, balance.available, after.available, rtype, rid))])

lock_balance(db, user, currency, amount, rtype, rid) ==
    IF amount <= 0 THEN Fail("InvalidAmount", db)
    ELSE LET balance == get_or_create_balance(db, user, currency)
         IN IF balance.available < amount THEN Fail("InsufficientBalance", db)
            ELSE LET after == [balance EXCEPT !.available = @ - amount,
                                              !.locked = @ + amount, !.version = @ + 1]
                 IN Ok([db EXCEPT !.balances[user][currency] = after,
                          !.ledger = Append(@, LedgerEntry(user, currency, "order_lock",
                                       0 - amount, balance.available, after.available, rtype, rid))])

unlock_balance_unchecked(db, user, currency, amount, rtype, rid) ==
    IF amount <= 0 THEN Fail("InvalidAmount", db)
    ELSE LET balance == get_or_create_balance(db, user, currency)
             after == [balance EXCEPT !.locked = @ - amount,
                                      !.available = @ + amount, !.version = @ + 1]
         IN Ok([db EXCEPT !.balances[user][currency] = after,
                          !.ledger = Append(@, LedgerEntry(user, currency, "order_unlock",
                                       amount, balance.available, after.available, rtype, rid))])

unlock_balance(db, user, currency, amount, rtype, rid) ==
    IF amount <= 0 THEN Fail("InvalidAmount", db)
    ELSE LET balance == get_or_create_balance(db, user, currency)
         IN IF balance.locked < amount THEN Fail("InsufficientLocked", db)
            ELSE LET after == [balance EXCEPT !.locked = @ - amount,
                                              !.available = @ + amount, !.version = @ + 1]
                 IN Ok([db EXCEPT !.balances[user][currency] = after,
                          !.ledger = Append(@, LedgerEntry(user, currency, "order_unlock",
                                       amount, balance.available, after.available, rtype, rid))])

deduct_locked(db, user, currency, amount, entry_type, rtype, rid) ==
    IF amount <= 0 THEN Fail("InvalidAmount", db)
    ELSE LET balance == get_or_create_balance(db, user, currency)
         IN IF balance.locked < amount THEN Fail("InsufficientLocked", db)
            ELSE LET after == [balance EXCEPT !.locked = @ - amount, !.version = @ + 1]
                 IN Ok([db EXCEPT !.balances[user][currency] = after,
                          !.ledger = Append(@, LedgerEntry(user, currency, entry_type,
                                       0 - amount, total(balance), total(after), rtype, rid))])

\* ---- Order rows ------------------------------------------------------------
remaining_quantity(order) == order.quantity - order.filled_quantity

NewOrder(id, user, order_type, side, status, time_in_force, quantity, price) ==
    [id |-> id, user |-> user, order_type |-> order_type, side |-> side,
     status |-> status, time_in_force |-> time_in_force,
     quantity |-> quantity, price |-> price, filled_quantity |-> 0,
     stop_price |-> Null, take_profit_price |-> Null,
     trailing_stop_percent |-> Null, highest_price_seen |-> Null,
     lowest_price_seen |-> Null, triggered_at |-> Null, parent_order |-> Null]

OrderRows(db) == {db.orders[i] : i \in 1..Len(db.orders)}

\* ---- Order Book Index -----------------------------------------------------
\* filter(side=..., status__in=['open','partial'], price__isnull=False)
Resting(db, side) ==
    {o \in OrderRows(db) : /\ o.side = side
                           /\ o.status \in {"open", "partial"}
                           /\ o.price # Null}

\* order_by('price','created_at') for sells, order_by('-price','created_at') for buys
PrecedesLatestFirst(a, b, opposite_side) ==
    IF opposite_side = "sell"
    THEN a.price < b.price \/ (a.price = b.price /\ a.id > b.id)
    ELSE a.price > b.price \/ (a.price = b.price /\ a.id > b.id)

Precedes(a, b, opposite_side) ==
    IF opposite_side = "sell"
    THEN a.price < b.price \/ (a.price = b.price /\ a.id < b.id)
    ELSE a.price > b.price \/ (a.price = b.price /\ a.id < b.id)

RECURSIVE OrderBy(_, _)
OrderBy(S, opposite_side) ==
    IF S = {} THEN <<>>
    ELSE LET first == CHOOSE a \in S : \A b \in S \ {a} : Precedes(a, b, opposite_side)
         IN <<first>> \o OrderBy(S \ {first}, opposite_side)

\* Sum('quantity') - Sum('filled_quantity') over the orders of a price level
RECURSIVE SumRemaining(_)
SumRemaining(S) ==
    IF S = {} THEN 0
    ELSE LET o == CHOOSE x \in S : TRUE
         IN remaining_quantity(o) + SumRemaining(S \ {o})

\* values('price').annotate(...).order_by('-price' / 'price'), with the
\* running totals; prices and quantities stand for their decimal strings
RECURSIVE BookSide(_, _, _, _)
BookSide(db, side, levels, running_total) ==
    IF levels = {} THEN <<>>
    ELSE LET price == CHOOSE a \in levels : \A b \in levels :
                          IF side = "buy" THEN a >= b ELSE a <= b
             level == {o \in Resting(db, side) : o.price = price}
             quantity == SumRemaining(level)
         IN <<[price |-> price, quantity |-> quantity,
               total |-> running_total + quantity,
               order_count |-> Cardinality(level)]>>
            \o BookSide(db, side, levels \ {price}, running_total + quantity)

\* the queryset slice [:depth]
Slice(seq, depth) == SubSeq(seq, 1, Min(depth, Len(seq)))

\* get_order_book on a cache miss: the aggregated book of the current rows
QueryOrderBook(db, depth) ==
    [bids |-> Slice(BookSide(db, "buy", {o.price : o \in Resting(db, "buy")}, 0), depth),
     asks |-> Slice(BookSide(db, "sell", {o.price : o \in Resting(db, "sell")}, 0), depth),
     last_price |-> db.last_price]

\* get_order_book: the answer and the cache after the call
get_order_book(db, c, depth) ==
    IF depth \in DOMAIN c
    THEN [order_book |-> c[depth], cache |-> c]
    ELSE Let(QueryOrderBook(db, depth), LAMBDA order_book :
             [order_book |-> order_book,
              cache |-> [d \in DOMAIN c \cup {depth} |->
                            IF d = depth THEN order_book ELSE c[d]]])

invalidate_cache(c) == [d \in DOMAIN c \ InvalidatedDepths |-> c[d]]

get_best_bid(db) == OrderBy(Resting(db, "buy"), "buy")

get_best_ask(db) == OrderBy(Resting(db, "sell"), "sell")

\* the price__lte / price__gte filter of a limit order
PriceFilterNone(o, side, price, is_market_order) == TRUE

PriceFilter(o, side, price, is_market_order) ==
    IF (~is_market_order) /\ price # Null
    THEN IF side = "buy" THEN o.price <= price ELSE o.price >= price
    ELSE TRUE

get_matching_orders(db, side, price, is_market_order) ==
    LET opposite_side == IF side = "buy" THEN "sell" ELSE "buy"
        queryset == {o \in Resting(db, opposite_side) :
                        PriceFilter(o, side, price, is_market_order)}
    IN OrderBy(queryset, opposite_side)

\* ---- Matching Engine -------------------------------------------------------
\* quantity * rate and quantity * price in hundredths
Amt(x) == x * Scale
Fee(x, pct) == (x * pct * Scale) \div 100

\* result of an engine step: the error raised (or ""), the rows written, and
\* for every trade executed the balances around its settlement
R(err, db, settles) == [err |-> err, db |-> db, settles |-> settles]

LockCurrency(side) == IF side = "buy" THEN quote_currency ELSE base_currency

_lock_funds_for_order(db, user, side, quantity, price, order_type) ==
    IF side = "buy" /\ order_type = "market" /\ get_best_ask(db) = <<>>
    THEN Fail("NoLiquidity", db)
    ELSE LET lock_amount ==
                 IF side = "buy"
                 THEN IF order_type = "market"
                      THEN (quantity * Head(get_best_ask(db)).price * BufferPct * Scale) \div 100
                      ELSE Amt(quantity * price)
                 ELSE Amt(quantity)
             r == lock_balance(db, user, LockCurrency(side), lock_amount, "order", Null)
         IN IF r.err # "" THEN Fail("InsufficientBalance", db) ELSE r

_settle_trade(db, trade_id, buyer, seller, quantity, quote_quantity, buyer_fee, seller_fee) ==
    Then(Then(Then(
        deduct_locked(db, buyer, quote_currency, Amt(quote_quantity),
                      "trade_buy", "trade", trade_id),
        LAMBDA d1 : credit_balance(d1, buyer, base_currency, Amt(quantity) - buyer_fee,
                                   "trade_buy", "trade", trade_id)),
        LAMBDA d2 : deduct_locked(d2, seller, base_currency, Amt(quantity),
                                  "trade_sell", "trade", trade_id)),
        LAMBDA d3 : credit_balance(d3, seller, quote_currency,
                                   Amt(quote_quantity) - seller_fee,
                                   "trade_sell", "trade", trade_id))

\* the order object is saved whole
_update_order_after_trade(db, order, filled_quantity) ==
    LET f == order.filled_quantity + filled_quantity
        o == [order EXCEPT !.filled_quantity = f,
                           !.status = IF f >= order.quantity THEN "filled"
                                      ELSE IF f > 0 THEN "partial" ELSE @]
    IN [db EXCEPT !.orders[order.id] = o]

FeeRatesSwapped(buyer_is_maker) ==
    IF buyer_is_maker
    THEN [buyer |-> TakerFeePct, seller |-> MakerFeePct]
    ELSE [buyer |-> MakerFeePct, seller |-> TakerFeePct]

\* maker_fee for the resting side, taker_fee for the incoming side
FeeRates(buyer_is_maker) ==
    IF buyer_is_maker
    THEN [buyer |-> MakerFeePct, seller |-> TakerFeePct]
    ELSE [buyer |-> TakerFeePct, seller |-> MakerFeePct]

\* Trade.objects.create of _execute_trade
NewTrade(db, taker_order, maker_order, quantity, price) ==
    LET quote_quantity == quantity * price
        buyer_is_maker == taker_order.side # "buy"
        buy_order == IF buyer_is_maker THEN maker_order ELSE taker_order
        sell_order == IF buyer_is_maker THEN taker_order ELSE maker_order
    IN [id |-> Len(db.trades) + 1,
        buy_order |-> buy_order.id, sell_order |-> sell_order.id,
        buyer |-> buy_order.user, seller |-> sell_order.user,
        price |-> price, quantity |-> quantity,
        quote_quantity |-> quote_quantity,
        buyer_fee |-> Fee(quantity, FeeRates(buyer_is_maker).buyer),
        seller_fee |-> Fee(quote_quantity, FeeRates(buyer_is_maker).seller),
        buyer_is_maker |-> buyer_is_maker]

_execute_trade(db, taker_order, maker_order, quantity, price) ==
    Let(NewTrade(db, taker_order, maker_order, quantity, price), LAMBDA trade :
    Let([db EXCEPT !.trades = Append(@, trade)], LAMBDA db1 :
    Let(_settle_trade(db1, trade.id, trade.buyer, trade.seller, quantity,
                      trade.quote_quantity, trade.buyer_fee, trade.seller_fee),
        LAMBDA r :
        IF r.err # "" THEN R(r.err, db, <<>>)
        ELSE R("",
               [_update_order_after_trade(
                    _update_order_after_trade(r.db, taker_order, quantity),
                    maker_order, quantity)
                EXCEPT !.last_price = price],
               <<[trade |-> trade, before |-> db1.balances,
                  after |-> r.db.balances]>>))))

TradeQuantityTaker(order, counter_order) == remaining_quantity(order)

TradeQuantity(order, counter_order) ==
    Min(remaining_quantity(order), remaining_quantity(counter_order))

TradePriceTaker(order, counter_order) == order.price

TradePrice(order, counter_order) == counter_order.price

NeverSelfMatch(order, counter_order) == FALSE

IsSelfMatch(order, counter_order) == counter_order.user = order.user

\* the for loop of _match_order over the list fetched before the loop;
\* the incoming order is re-read from the database after every trade
\* a loop that stops after its first trade
MatchLoopFirstOnly(db, order, matching_orders, i, settles) ==
    IF i > Len(matching_orders) THEN R("", db, settles)
    ELSE IF remaining_quantity(order) <= 0 THEN R("", db, settles)
    ELSE Let(matching_orders[i], LAMBDA counter_order :
         IF IsSelfMatch(order, counter_order) THEN R("", db, settles)
         ELSE Let(_execute_trade(db, order, counter_order,
                                 TradeQuantity(order, counter_order),
                                 TradePrice(order, counter_order)),
                  LAMBDA r :
                  IF r.err # "" THEN R(r.err, db, settles)
                  ELSE R("", r.db, settles \o r.settles)))

RECURSIVE MatchLoop(_, _, _, _, _)
MatchLoop(db, order, matching_orders, i, settles) ==
    IF i > Len(matching_orders) THEN R("", db, settles)
    ELSE IF remaining_quantity(order) <= 0 THEN R("", db, settles)
    ELSE Let(matching_orders[i], LAMBDA counter_order :
         IF IsSelfMatch(order, counter_order)
         THEN MatchLoop(db, order, matching_orders, i + 1, settles)
         ELSE Let(_execute_trade(db, order, counter_order,
                                 TradeQuantity(order, counter_order),
                                 TradePrice(order, counter_order)),
                  LAMBDA r :
                  IF r.err # "" THEN R(r.err, db, settles)
                  ELSE MatchLoop(r.db, r.db.orders[order.id], matching_orders,
                                 i + 1, settles \o r.settles)))

_match_order(db, order) ==
    IF remaining_quantity(order) <= 0 THEN R("", db, <<>>)
    ELSE MatchLoop(db, order,
                   get_matching_orders(db, order.side, order.price,
                                       order.order_type = "market"),
                   1, <<>>)

CancellableAlways(order) == TRUE

Cancellable(order) == order.status \in {"open", "partial"}

cancel_order(db, order) ==
    IF ~Cancellable(order) THEN Fail("InvalidState", db)
    ELSE LET remaining == remaining_quantity(order)
             done(d) == Ok([d EXCEPT !.orders[order.id] =
                                        [order EXCEPT !.status = "cancelled"]])
         IN IF remaining > 0
            THEN IF order.side = "buy" /\ order.price = Null
                 THEN Fail("TypeError", db)
                 ELSE LET r == unlock_balance(db, order.user, LockCurrency(order.side),
                                   IF order.side = "buy" THEN Amt(remaining * order.price)
                                                         ELSE Amt(remaining),
                                   "order", order.id)
                      IN IF r.err # "" THEN r ELSE done(r.db)
            ELSE done(db)

create_order(db, user, order_type, side, quantity, price, time_in_force) ==
    Let(_lock_funds_for_order(db, user, side, quantity, price, order_type),
        LAMBDA r1 :
    IF r1.err # "" THEN R(r1.err, db, <<>>) ELSE
    Let(NewOrder(Len(db.orders) + 1, user, order_type, side, "open",
                 time_in_force, quantity, price), LAMBDA order :
    Let(_match_order([r1.db EXCEPT !.orders = Append(@, order)], order),
        LAMBDA r2 :
    IF r2.err # "" THEN R(r2.err, db, <<>>) ELSE
    Let(r2.db.orders[order.id], LAMBDA matched :
    IF \/ time_in_force = "IOC" /\ matched.status = "open"
       \/ time_in_force = "FOK" /\ matched.status # "filled"
    THEN Let(cancel_order(r2.db, matched), LAMBDA r3 :
             IF r3.err # "" THEN R(r3.err, db, <<>>)
             ELSE R("", r3.db, r2.settles))
    ELSE r2))))

\* ---- External ledger callers -----------------------------------------------
admin_adjust_balance(db, target_user, currency, amount, adjustment_type) ==
    IF amount <= 0 THEN Fail("InvalidAmount", db)
    ELSE IF adjustment_type = "credit"
         THEN credit_balance(db, target_user, currency, amount, "admin_credit", Null, Null)
         ELSE debit_balance(db, target_user, currency, amount, "admin_debit", Null, Null)

AdjustAmounts == {0, Scale}

\* ---- Stop Order Service -------------------------------------------------------
StopTypes == {"stop_loss", "stop_limit", "take_profit", "take_profit_limit",
              "trailing_stop"}

is_stop_order(order) == order.order_type \in StopTypes

create_stop_loss_order(db, user, side, quantity, stop_price, limit_price) ==
    LET order_type == IF limit_price # Null THEN "stop_limit" ELSE "stop_loss"
        order == [NewOrder(Len(db.orders) + 1, user, order_type, side, "pending",
                           "GTC", quantity, limit_price)
                  EXCEPT !.stop_price = stop_price]
    IN Ok([db EXCEPT !.orders = Append(@, order)])

create_take_profit_order(db, user, side, quantity, take_profit_price, limit_price) ==
    LET order_type == IF limit_price # Null THEN "take_profit_limit" ELSE "take_profit"
        order == [NewOrder(Len(db.orders) + 1, user, order_type, side, "pending",
                           "GTC", quantity, limit_price)
                  EXCEPT !.take_profit_price = take_profit_price]
    IN Ok([db EXCEPT !.orders = Append(@, order)])

\* TrailingStopOrderView refuses when the pair has no last price
create_trailing_stop_order(db, user, side, quantity, trailing_percent, current_price) ==
    IF current_price <= 0 THEN Fail("NoMarketPrice", db)
    ELSE LET order == [NewOrder(Len(db.orders) + 1, user, "trailing_stop", side,
                                "pending", "GTC", quantity, Null)
                       EXCEPT !.trailing_stop_percent = trailing_percent,
                              !.highest_price_seen =
                                  IF side = "sell" THEN current_price ELSE Null,
                              !.lowest_price_seen =
                                  IF side = "buy" THEN current_price ELSE Null]
         IN Ok([db EXCEPT !.orders = Append(@, order)])

create_oco_order(db, user, side, quantity, limit_price, stop_price, stop_limit_price) ==
    LET limit_id == Len(db.orders) + 1
        stop_id == Len(db.orders) + 2
        stop_type == IF stop_limit_price # Null THEN "stop_limit" ELSE "stop_loss"
        limit_order == [NewOrder(limit_id, user, "limit", side, "open", "GTC",
                                 quantity, limit_price)
                        EXCEPT !.parent_order = stop_id]
        stop_order == [NewOrder(stop_id, user, stop_type, side, "pending", "GTC",
                                quantity, stop_limit_price)
                       EXCEPT !.stop_price = stop_price, !.parent_order = limit_id]
    IN Ok([db EXCEPT !.orders = Append(Append(@, limit_order), stop_order)])

\* the stop_loss / stop_limit branch of Order.should_trigger
StopLossFiresSellRule(order, current_price) == current_price <= order.stop_price

StopLossFires(order, current_price) ==
    IF order.side = "sell" THEN current_price <= order.stop_price
                           ELSE current_price >= order.stop_price

\* a trailing stop that records every tick as its extreme
SeenExtremeLatest(order, current_price) ==
    IF order.side = "sell"
    THEN [order EXCEPT !.highest_price_seen = current_price]
    ELSE [order EXCEPT !.lowest_price_seen = current_price]

\* the trailing_stop branch of Order.should_trigger: the row with its running
\* extreme moved when the price has gone further in the favourable direction
SeenExtreme(order, current_price) ==
    IF order.side = "sell"
    THEN IF order.highest_price_seen = Null
            \/ current_price > order.highest_price_seen
         THEN [order EXCEPT !.highest_price_seen = current_price]
         ELSE order
    ELSE IF order.lowest_price_seen = Null
            \/ current_price < order.lowest_price_seen
         THEN [order EXCEPT !.lowest_price_seen = current_price]
         ELSE order

\* Order.should_trigger: the answer, and the row as it has saved it
should_trigger(order, current_price) ==
    IF ~is_stop_order(order) \/ order.status # "pending"
    THEN [fire |-> FALSE, order |-> order]
    ELSE IF order.order_type \in {"stop_loss", "stop_limit"}
    THEN [fire |-> StopLossFires(order, current_price), order |-> order]
    ELSE IF order.order_type \in {"take_profit", "take_profit_limit"}
    THEN [fire |-> IF order.side = "sell"
                   THEN current_price >= order.take_profit_price
                   ELSE current_price <= order.take_profit_price,
          order |-> order]
    ELSE IF order.trailing_stop_percent = Null
    THEN [fire |-> FALSE, order |-> order]
    ELSE IF order.side = "sell"
    THEN Let(SeenExtreme(order, current_price), LAMBDA seen :
             [fire |-> current_price * 100
                        <= seen.highest_price_seen * (100 - seen.trailing_stop_percent),
              order |-> seen])
    ELSE Let(SeenExtreme(order, current_price), LAMBDA seen :
             [fire |-> current_price * 100
                        >= seen.lowest_price_seen * (100 + seen.trailing_stop_percent),
              order |-> seen])

\* a trigger that rewrites every conditional order to a market order
trigger_all_market(order, now) ==
    IF ~is_stop_order(order) THEN order
    ELSE [order EXCEPT !.triggered_at = now, !.order_type = "market", !.status = "open"]

\* Order.trigger; triggered_at is the position of the trigger in time
trigger(order, now) ==
    IF ~is_stop_order(order) THEN order
    ELSE IF order.order_type \in {"stop_loss", "take_profit", "trailing_stop"}
    THEN [order EXCEPT !.triggered_at = now, !.order_type = "market", !.status = "open"]
    ELSE [order EXCEPT !.triggered_at = now, !.order_type = "limit", !.status = "open"]

Triggered(db) == {o \in OrderRows(db) : o.triggered_at # Null}

\* the loop of check_and_trigger_stops over the pending stop orders, latest
\* created first (Meta.ordering)
RECURSIVE TriggerLoop(_, _, _)
TriggerLoop(db, pending_stops, current_price) ==
    IF pending_stops = {} THEN db
    ELSE LET id == CHOOSE i \in pending_stops : \A j \in pending_stops : j <= i
             s == should_trigger(db.orders[id], current_price)
             saved == IF s.fire
                      THEN trigger(s.order, Cardinality(Triggered(db)) + 1)
                      ELSE s.order
         IN TriggerLoop([db EXCEPT !.orders[id] = saved], pending_stops \ {id},
                        current_price)

check_and_trigger_stops(db, current_price) ==
    Ok(TriggerLoop(db, {i \in 1..Len(db.orders) :
                           /\ db.orders[i].status = "pending"
                           /\ is_stop_order(db.orders[i])},
                   current_price))

cancel_stop_order(db, order) ==
    IF order.status # "pending" THEN Fail("CannotCancel", db)
    ELSE Ok([db EXCEPT !.orders[order.id].status = "cancelled"])

\* ---- Request budgets ----------------------------------------------------------
\* the stop leg of a request served by the stop order service
StopLeg(o) ==
    \/ o.stop_price # Null
    \/ o.take_profit_price # Null
    \/ o.trailing_stop_percent # Null

\* the number of requests that have written so far: orders placed, orders
\* cancelled, admin adjustments, conditional orders placed; it is what
\* MaxRequests bounds
StopRequests == Cardinality({i \in 1..Len(orders) : StopLeg(orders[i])})

Requests ==
    Cardinality({i \in 1..Len(orders) :
                    ~StopLeg(orders[i]) /\ orders[i].parent_order = Null})
    + Cardinality({i \in 1..Len(orders) :
                      orders[i].status = "cancelled" /\ ~is_stop_order(orders[i])})
    + Cardinality({i \in 1..Len(ledger) :
                      ledger[i].entry_type \in {"admin_credit", "admin_debit"}})
    + StopRequests

\* ---- State machine -----------------------------------------------------------
\* the last request served: its arguments, the error it raised ("" if none),
\* and the settlements of the trades it executed
NoCall == [op |-> "none", err |-> "", order |-> Null, settles |-> <<>>,
           price |-> Null, triggered |-> {}]

Fund(currency) == IF currency = base_currency THEN Amt(BaseFund) ELSE Amt(QuoteFund)

\* every user has had one deposit of each currency processed
RECURSIVE Deposits(_, _)
Deposits(db, S) ==
    IF S = {} THEN db
    ELSE LET uc == CHOOSE x \in S : TRUE
         IN Deposits(credit_balance(db, uc[1], uc[2], Fund(uc[2]), "deposit",
                                    "deposit", Null).db, S \ {uc})

EmptyDB ==
    [balances |-> [u \in Users |-> [c \in Currencies |->
                      [available |-> 0, locked |-> 0, version |-> 1]]],
     ledger |-> <<>>, orders |-> <<>>, trades |-> <<>>, last_price |-> 0]

Init ==
    LET db == Deposits(EmptyDB, Users \X Currencies)
    IN /\ balances = db.balances
       /\ ledger = db.ledger
       /\ orders = db.orders
       /\ trades = db.trades
       /\ last_price = db.last_price
       /\ cache = <<>>
       /\ fetched = {}
       /\ in_flight = {}
       /\ last = NoCall

\* the requests that end with OrderBookService.invalidate_cache
InvalidatingOps == {"create_order", "cancel_order"}

\* commit the rows of a request that returned, keep them when it raised
CommitRows(r, call) ==
    /\ balances' = IF r.err = "" THEN r.db.balances ELSE balances
    /\ ledger' = IF r.err = "" THEN r.db.ledger ELSE ledger
    /\ orders' = IF r.err = "" THEN r.db.orders ELSE orders
    /\ trades' = IF r.err = "" THEN r.db.trades ELSE trades
    /\ last_price' = IF r.err = "" THEN r.db.last_price ELSE last_price
    /\ cache' = IF r.err = "" /\ call.op \in InvalidatingOps
                THEN invalidate_cache(cache) ELSE cache
    /\ last' = [call EXCEPT !.err = r.err]

Commit(r, call) == CommitRows(r, call) /\ UNCHANGED <<fetched, in_flight>>

\* the answer to a create_order request
OrderCall(r) ==
    Commit(r, [NoCall EXCEPT !.op = "create_order",
                  !.order = IF r.err = "" THEN Len(orders) + 1 ELSE Null,
                  !.settles = r.settles])

CreateOrderOf(OrderTypes, TIFs, MarketPrices) ==
    /\ Requests < MaxRequests
    /\ \E user \in Users, side \in Sides, quantity \in Quantities,
          order_type \in OrderTypes, price \in {Null} \cup Prices,
          time_in_force \in TIFs :
        /\ order_type = "limit" => price # Null
        /\ order_type = "market" => price \in MarketPrices
        /\ OrderCall(create_order(DB, user, order_type, side, quantity, price,
                                  time_in_force))

CreateOrder == CreateOrderOf({"limit", "market"}, TimeInForce, {Null} \cup Prices)

CancelOrder ==
    /\ Requests < MaxRequests
    /\ \E id \in 1..Len(orders) :
        Commit(cancel_order(DB, orders[id]),
               [NoCall EXCEPT !.op = "cancel_order", !.order = id])

AdminAdjust ==
    /\ Requests < MaxRequests
    /\ \E user \in Users, currency \in Currencies, amount \in AdjustAmounts,
          adjustment_type \in {"credit", "debit"} :
        Commit(admin_adjust_balance(DB, user, currency, amount, adjustment_type),
               [NoCall EXCEPT !.op = adjustment_type])

Next == CreateOrder \/ CancelOrder \/ AdminAdjust

Spec == Init /\ [][Next]_vars

\* ---- State machine with the conditional orders ------------------------------
StopCall(r, op) ==
    Commit(r, [NoCall EXCEPT !.op = op,
                  !.order = IF r.err = "" THEN Len(r.db.orders) ELSE Null])

CreateStopLossOrder ==
    /\ Requests < MaxRequests /\ StopRequests < MaxStopRequests
    /\ \E user \in Users, side \in Sides, quantity \in Quantities,
          stop_price \in Prices, limit_price \in {Null} \cup Prices :
        StopCall(create_stop_loss_order(DB, user, side, quantity, stop_price,
                                        limit_price), "create_stop_loss_order")

CreateTakeProfitOrder ==
    /\ Requests < MaxRequests /\ StopRequests < MaxStopRequests
    /\ \E user \in Users, side \in Sides, quantity \in Quantities,
          take_profit_price \in Prices, limit_price \in {Null} \cup Prices :
        StopCall(create_take_profit_order(DB, user, side, quantity,
                                          take_profit_price, limit_price),
                 "create_take_profit_order")

CreateTrailingStopOrder ==
    /\ Requests < MaxRequests /\ StopRequests < MaxStopRequests
    /\ \E user \in Users, side \in Sides, quantity \in Quantities,
          trailing_percent \in TrailingPercents :
        StopCall(create_trailing_stop_order(DB, user, side, quantity,
                                            trailing_percent, last_price),
                 "create_trailing_stop_order")

CreateOCOOrder ==
    /\ Requests < MaxRequests /\ StopRequests < MaxStopRequests
    /\ \E user \in Users, side \in Sides, quantity \in Quantities,
          limit_price \in Prices, stop_price \in Prices,
          stop_limit_price \in {Null} \cup Prices :
        StopCall(create_oco_order(DB, user, side, quantity, limit_price,
                                  stop_price, stop_limit_price), "create_oco_order")

\* the periodic task: pairs with a last price, and it writes nothing when no
\* stop order is pending
CheckStopOrders ==
    /\ last_price > 0
    /\ \E i \in 1..Len(orders) : orders[i].status = "pending" /\ is_stop_order(orders[i])
    /\ Commit(check_and_trigger_stops(DB, last_price),
              [NoCall EXCEPT !.op = "check_stop_orders"])

\* CancelStopOrderView answers 400 for an order that is not a stop order
CancelStopOrder ==
    \E id \in 1..Len(orders) :
        /\ is_stop_order(orders[id])
        /\ Commit(cancel_stop_order(DB, orders[id]),
                  [NoCall EXCEPT !.op = "cancel_stop_order", !.order = id])

\* orders are placed here good-till-cancelled and market orders without a
\* price; Next has the other time-in-force values and priced market orders
NextStops ==
    \/ CreateOrderOf({"limit", "market"}, {"GTC"}, {Null})
    \/ CancelOrder
    \/ CreateStopLossOrder
    \/ CreateTakeProfitOrder
    \/ CreateTrailingStopOrder
    \/ CreateOCOOrder
    \/ CheckStopOrders
    \/ CancelStopOrder

SpecStops == Init /\ [][NextStops]_vars

\* ---- State machine with the order book cache -----------------------------------
\* OrderBookView.get: the book at one of the depths a caller may ask for
GetOrderBook ==
    /\ \E depth \in Depths : cache' = get_order_book(DB, cache, depth).cache
    /\ UNCHANGED <<balances, ledger, orders, trades, last_price, fetched, in_flight, last>>

\* a cached answer reaches its CACHE_TTL
ExpireCache ==
    /\ \E depth \in DOMAIN cache :
          cache' = [d \in DOMAIN cache \ {depth} |-> cache[d]]
    /\ UNCHANGED <<balances, ledger, orders, trades, last_price, fetched, in_flight, last>>

NextCache ==
    \/ CreateOrderOf({"limit"}, {"GTC"}, {Null})
    \/ CancelOrder
    \/ CreateOCOOrder
    \/ CheckStopOrders
    \/ GetOrderBook
    \/ ExpireCache

SpecCache == Init /\ [][NextCache]_vars

\* ---- State machine with cancel requests in flight ------------------------------
\* OrderCancelView.post reads the order (Order.objects.get, no row lock) ...
FetchOrder ==
    /\ Requests < MaxRequests
    /\ fetched = {}
    /\ \E id \in 1..Len(orders) : fetched' = {orders[id]}
    /\ UNCHANGED <<balances, ledger, orders, trades, last_price, cache, in_flight, last>>

\* ... and later hands the object it read to MatchingEngine.cancel_order
CancelFetched ==
    \E order \in fetched :
        /\ CommitRows(cancel_order(DB, order),
                      [NoCall EXCEPT !.op = "cancel_order", !.order = order.id])
        /\ fetched' = fetched \ {order}
        /\ UNCHANGED in_flight

NextRace ==
    \/ CreateOrderOf({"limit"}, {"GTC"}, {Null})
    \/ FetchOrder
    \/ CancelFetched

SpecRace == Init /\ [][NextRace]_vars

\* ---- State machine with stop order cancellations in flight ----------------------
\* CancelStopOrderView.delete reads the order (get_object_or_404, no row
\* lock) and checks that it is a stop order ...
FetchStopOrder ==
    /\ fetched = {}
    /\ \E id \in 1..Len(orders) :
          /\ is_stop_order(orders[id])
          /\ fetched' = {orders[id]}
    /\ UNCHANGED <<balances, ledger, orders, trades, last_price, cache, in_flight, last>>

\* ... and later hands the object it read to cancel_stop_order
CancelStopFetched ==
    \E order \in fetched :
        /\ CommitRows(cancel_stop_order(DB, order),
                      [NoCall EXCEPT !.op = "cancel_stop_order", !.order = order.id])
        /\ fetched' = fetched \ {order}
        /\ UNCHANGED in_flight

NextStopRace ==
    \/ CreateOrderOf({"limit"}, {"GTC"}, {Null})
    \/ CreateStopLossOrder
    \/ CheckStopOrders
    \/ FetchStopOrder
    \/ CancelStopFetched

SpecStopRace == Init /\ [][NextStopRace]_vars

\* ---- State machine with overlapping trigger evaluations -------------------------
\* no evaluation ever holds a row lock
NoRowLocked(id) == FALSE

\* select_for_update: the order row is locked by an evaluation in flight
OrderRowLocked(id) ==
    \E t \in in_flight : \E o \in t.rows : o.id = id

\* the loop of check_and_trigger_stops over the order objects it has read
RECURSIVE TriggerRows(_, _, _)
TriggerRows(db, rows, current_price) ==
    IF rows = {} THEN db
    ELSE LET order == CHOOSE o \in rows : \A x \in rows : x.id <= o.id
             s == should_trigger(order, current_price)
             saved == IF s.fire
                      THEN trigger(s.order, Cardinality(Triggered(db)) + 1)
                      ELSE [db.orders[order.id] EXCEPT
                               !.highest_price_seen = s.order.highest_price_seen,
                               !.lowest_price_seen = s.order.lowest_price_seen]
         IN TriggerRows([db EXCEPT !.orders[order.id] = saved], rows \ {order},
                        current_price)

\* the pending stop orders an evaluation selects
PendingStopIds ==
    {i \in 1..Len(orders) : orders[i].status = "pending" /\ is_stop_order(orders[i])}

\* a task starts an evaluation (check_stop_orders at the last price,
\* update_trailing_stops at the price it was handed); its SELECT ... FOR UPDATE
\* has not returned yet
RequestEvaluation ==
    /\ PendingStopIds # {}
    /\ Cardinality(in_flight) < MaxEvaluations
    /\ \E current_price \in Prices :
        in_flight' = in_flight \cup
           {[txn |-> CHOOSE n \in 1..MaxEvaluations :
                        \A t \in in_flight : t.txn # n,
             state |-> "waiting", current_price |-> current_price, rows |-> {}]}
    /\ last' = [NoCall EXCEPT !.op = "request_evaluation"]
    /\ UNCHANGED <<balances, ledger, orders, trades, last_price, cache, fetched>>

\* the SELECT ... FOR UPDATE returns the pending stop orders and holds their
\* row locks; it waits as long as another transaction holds one of them
AcquireRows ==
    \E t \in in_flight :
        /\ t.state = "waiting"
        /\ \A id \in PendingStopIds : ~OrderRowLocked(id)
        /\ in_flight' = (in_flight \ {t}) \cup
               {[t EXCEPT !.state = "holding",
                          !.rows = {orders[id] : id \in PendingStopIds}]}
        /\ last' = [NoCall EXCEPT !.op = "acquire_rows"]
        /\ UNCHANGED <<balances, ledger, orders, trades, last_price, cache, fetched>>

\* the loop runs on the objects read and the transaction commits, which
\* releases the row locks
FinishEvaluation ==
    \E t \in in_flight :
        /\ t.state = "holding"
        /\ CommitRows(Ok(TriggerRows(DB, t.rows, t.current_price)),
                      [NoCall EXCEPT !.op = "evaluate", !.price = t.current_price,
                          !.triggered = {o.id : o \in {x \in t.rows :
                                            should_trigger(x, t.current_price).fire}}])
        /\ in_flight' = in_flight \ {t}
        /\ UNCHANGED fetched

\* stop-loss market orders placed while evaluations are in flight
CreateStopLossOrderAt ==
    /\ StopRequests < MaxPendingStops
    /\ \E user \in Users, side \in Sides, stop_price \in Prices :
        /\ StopCall(create_stop_loss_order(DB, user, side, 1, stop_price, Null),
                    "create_stop_loss_order")

NextEvalRace ==
    \/ CreateStopLossOrderAt
    \/ RequestEvaluation
    \/ AcquireRows
    \/ FinishEvaluation

SpecEvalRace == Init /\ [][NextEvalRace]_vars

\* ---- State machine with the processing of triggered orders ----------------------
\* MatchingEngine has no attribute match_order: the call raises AttributeError
match_order(db, order) == Fail("AttributeError", db)

\* process_triggered_orders: the open orders with a triggered_at, by
\* triggered_at; an exception is printed and the loop goes on
RECURSIVE ProcessLoop(_, _)
ProcessLoop(db, triggered_orders) ==
    IF triggered_orders = {} THEN db
    ELSE LET order == CHOOSE o \in triggered_orders :
                          \A x \in triggered_orders : o.triggered_at <= x.triggered_at
         IN Let(match_order(db, order), LAMBDA r :
                ProcessLoop(IF r.err = "" THEN r.db ELSE db,
                            triggered_orders \ {order}))

process_triggered_orders(db) ==
    Ok(ProcessLoop(db, {o \in Triggered(db) : o.status = "open"}))

ProcessTriggeredOrders ==
    /\ \E o \in Triggered(DB) : o.status = "open"
    /\ Commit(process_triggered_orders(DB),
              [NoCall EXCEPT !.op = "process_triggered_orders"])

NextMonitor ==
    \/ CreateOrderOf({"limit", "market"}, {"GTC"}, {Null})
    \/ CreateStopLossOrder
    \/ CreateTakeProfitOrder
    \/ CheckStopOrders
    \/ ProcessTriggeredOrders

SpecMonitor == Init /\ [][NextMonitor]_vars

\* ---- State machine of the trailing stops under price ticks ----------------------
\* the prices the pair is at and the ticks the monitor is called with, and
\* the trailing percents of the orders
TickPrices == {94, 95, 96, 100, 105}
TickPercents == {5}

\* a pair as the demo data sets it up: a last price and no order yet
InitTicks ==
    LET db == Deposits(EmptyDB, Users \X Currencies)
    IN /\ balances = db.balances
       /\ ledger = db.ledger
       /\ orders = db.orders
       /\ trades = db.trades
       /\ last_price \in TickPrices
       /\ cache = <<>>
       /\ fetched = {}
       /\ in_flight = {}
       /\ last = NoCall

CreateTrailingStopOrderAt ==
    /\ StopRequests < MaxTrailingStops
    /\ \E user \in Users, side \in Sides, trailing_percent \in TickPercents :
        StopCall(create_trailing_stop_order(DB, user, side, 1, trailing_percent,
                                            last_price),
                 "create_trailing_stop_order")

\* the task update_trailing_stops, called with the price of a trade
UpdateTrailingStops ==
    /\ \E i \in 1..Len(orders) : orders[i].status = "pending" /\ is_stop_order(orders[i])
    /\ \E current_price \in TickPrices :
        Commit(check_and_trigger_stops(DB, current_price),
               [NoCall EXCEPT !.op = "update_trailing_stops", !.price = current_price])

NextTicks == CreateTrailingStopOrderAt \/ UpdateTrailingStops

SpecTicks == InitTicks /\ [][NextTicks]_vars

\* ---- Properties -------------------------------------------------------------
RECURSIVE SumAmounts(_, _, _, _)
SumAmounts(entries, user, currency, i) ==
    IF i > Len(entries) THEN 0
    ELSE (IF entries[i].user = user /\ entries[i].currency = currency
          THEN entries[i].amount ELSE 0)
         + SumAmounts(entries, user, currency, i + 1)

\* the resting order of a trade is the one placed first, the incoming order
\* the one placed last
MakerOf(t) == orders[Min(t.buy_order, t.sell_order)]
TakerOf(t) == orders[IF t.buy_order < t.sell_order THEN t.sell_order ELSE t.buy_order]
TradeRows == {trades[i] : i \in 1..Len(trades)}

\* C1: for every (user, currency), available + locked equals the sum of the
\* signed amounts of all LedgerEntry rows of that (user, currency).
C1_Reconciliation ==
    \A u \in Users, c \in Currencies :
        total(balances[u][c]) = SumAmounts(ledger, u, c, 1)

\* C2: for every order, 0 <= filled_quantity <= quantity.
C2_FilledWithinQuantity ==
    \A i \in 1..Len(orders) :
        /\ 0 <= orders[i].filled_quantity
        /\ orders[i].filled_quantity <= orders[i].quantity

\* a trade has filled its taker completely and its maker partly, and the
\* periodic check has then triggered a pending stop order
C2_Witness ==
    /\ last.op = "check_stop_orders"
    /\ \E i \in 1..Len(orders) : orders[i].triggered_at # Null
    /\ \E t \in TradeRows :
          /\ TakerOf(t).status = "filled"
          /\ MakerOf(t).status = "partial"
          /\ MakerOf(t).filled_quantity < MakerOf(t).quantity

\* C3: every balance has available >= 0 and locked >= 0.
C3_NonNegative ==
    \A u \in Users, c \in Currencies :
        balances[u][c].available >= 0 /\ balances[u][c].locked >= 0

\* after a settlement has consumed a reservation, an admin debit takes an
\* available balance down to exactly zero
C3_Witness ==
    /\ last.op = "debit" /\ last.err = ""
    /\ Len(trades) > 0
    /\ \E u \in Users, c \in Currencies : balances[u][c].available = 0

\* the amount CreateOrder has to reserve, 0 when a market buy finds no ask
RequiredLock(side, order_type, quantity, price) ==
    IF side = "sell" THEN quantity * Scale
    ELSE IF order_type = "limit" THEN quantity * price * Scale
    ELSE IF Resting(DB, "sell") = {} THEN 0
    ELSE LET best == CHOOSE a \in Resting(DB, "sell") :
                        \A b \in Resting(DB, "sell") :
                            a.price < b.price \/ (a.price = b.price /\ a.id <= b.id)
         IN (quantity * best.price * BufferPct * Scale) \div 100

OrderInputs ==
    {i \in [user : Users, side : Sides, quantity : Quantities,
            order_type : {"limit", "market"}, price : {Null} \cup Prices,
            time_in_force : TimeInForce] :
        i.order_type = "limit" => i.price # Null}

\* C4: a CreateOrder by a user whose available balance in the currency to be
\* locked is less than the required lock amount fails with InsufficientBalance
\* and writes nothing: no order row, no ledger entry, no balance change.
C4_InsufficientBalanceNoChange ==
    \A i \in OrderInputs :
        LET required == RequiredLock(i.side, i.order_type, i.quantity, i.price)
        IN (required > 0 /\
            balances[i.user][LockCurrency(i.side)].available < required)
           => LET r == create_order(DB, i.user, i.order_type, i.side, i.quantity,
                                    i.price, i.time_in_force)
              IN /\ r.err = "InsufficientBalance"
                 /\ r.db.orders = orders
                 /\ r.db.ledger = ledger
                 /\ r.db.balances = balances
                 /\ r.db.trades = trades

\* a CreateOrder of a user with no available quote currency has just been
\* refused, and the rows are those of before
C4_Witness ==
    /\ last.op = "create_order"
    /\ last.err = "InsufficientBalance"
    /\ \E u \in Users : balances[u][quote_currency].available = 0
    /\ Len(orders) > 0

\* C5: CancelOrder succeeds only on an open or partial order; on any other
\* order it fails with InvalidState and leaves orders, balances, ledger and
\* trades as they were.
C5_CancelOnlyOpenOrPartial ==
    [][last'.op = "cancel_order" =>
        IF orders[last'.order].status \in {"open", "partial"}
        THEN last'.err = "" => orders'[last'.order].status = "cancelled"
        ELSE /\ last'.err = "InvalidState"
             /\ UNCHANGED <<balances, ledger, orders, trades>>]_vars

\* the second cancellation of an order has just been refused
C5_Witness ==
    /\ last.op = "cancel_order"
    /\ last.err = "InvalidState"
    /\ orders[last.order].status = "cancelled"
    /\ \E i \in 1..Len(ledger) : /\ ledger[i].entry_type = "order_unlock"
                                 /\ ledger[i].reference_id = last.order

\* price-time priority between two resting orders of the side opposite to an
\* incoming order of side `side`
PriceTimeBefore(a, b, side) ==
    \/ (IF side = "buy" THEN a.price < b.price ELSE a.price > b.price)
    \/ a.price = b.price /\ a.id < b.id

MatchQueries == Sides \X ({Null} \cup Prices) \X BOOLEAN

\* the trades of the last request, in the order they were executed
LastTrades == [i \in 1..Len(last.settles) |-> last.settles[i].trade]

\* resting sells at prices 100, 99, 99, 101, placed in that order
ExampleSell(id, price) == NewOrder(id, "u1", "limit", "sell", "open", "GTC", 1, price)

ExampleBook ==
    [EmptyDB EXCEPT !.orders = <<ExampleSell(1, 100), ExampleSell(2, 99),
                                 ExampleSell(3, 99), ExampleSell(4, 101)>>]

\* C6: GetMatchingOrders returns the resting opposite-side orders in price-time
\* priority (sells ascending by price for an incoming buy, buys descending by
\* price for an incoming sell, ties by creation), so that sells at 100, 99, 99,
\* 101 are returned to a market buy as second, third, first, fourth; and the
\* trades of one matching loop are executed against the makers in that order.
C6_PriceTimePriority ==
    /\ get_matching_orders(ExampleBook, "buy", Null, TRUE) =
          <<ExampleBook.orders[2], ExampleBook.orders[3],
            ExampleBook.orders[1], ExampleBook.orders[4]>>
    /\ \A q \in MatchQueries :
        LET result == get_matching_orders(DB, q[1], q[2], q[3])
            opposite == IF q[1] = "buy" THEN "sell" ELSE "buy"
        IN /\ \A i, j \in 1..Len(result) :
                 i < j => PriceTimeBefore(result[i], result[j], q[1])
           /\ {result[i] : i \in 1..Len(result)} =
                 {o \in OrderRows(DB) :
                     /\ o.side = opposite
                     /\ o.status \in {"open", "partial"}
                     /\ o.price # Null
                     /\ (~q[3] /\ q[2] # Null) =>
                           IF q[1] = "buy" THEN o.price <= q[2] ELSE o.price >= q[2]}
    /\ \A i, j \in 1..Len(LastTrades) :
          i < j => PriceTimeBefore(MakerOf(LastTrades[i]), MakerOf(LastTrades[j]),
                                   TakerOf(LastTrades[i]).side)

\* three resting sells placed at prices 2, 1, 1 are returned to a market buy as
\* second, third, first
C6_Witness ==
    /\ Len(orders) = 3
    /\ \A i \in 1..3 : orders[i].side = "sell" /\ orders[i].status = "open"
    /\ <<orders[1].price, orders[2].price, orders[3].price>> = <<2, 1, 1>>
    /\ get_matching_orders(DB, "buy", Null, TRUE) = <<orders[2], orders[3], orders[1]>>

\* C7: every trade is priced at the price of its resting (maker) order, never
\* at the incoming order's own limit price.
C7_TradeAtMakerPrice ==
    \A t \in TradeRows : t.price = MakerOf(t).price

\* a resting sell at 1 was matched by an incoming buy limit at 2
C7_Witness ==
    \E t \in TradeRows :
        /\ MakerOf(t).side = "sell" /\ MakerOf(t).price = 1
        /\ TakerOf(t).order_type = "limit" /\ TakerOf(t).price = 2
        /\ t.price = 1

\* C8: no trade of an incoming limit order executes outside its limit (price
\* <= limit for a buy, >= limit for a sell); an incoming market order is
\* matched with no price filter.
C8_WithinLimit ==
    /\ \A t \in TradeRows :
          TakerOf(t).order_type = "limit" =>
              IF TakerOf(t).side = "buy" THEN t.price <= TakerOf(t).price
                                         ELSE t.price >= TakerOf(t).price
    /\ \A side \in Sides, price \in {Null} \cup Prices :
          LET result == get_matching_orders(DB, side, price, TRUE)
          IN {result[i] : i \in 1..Len(result)} =
                Resting(DB, IF side = "buy" THEN "sell" ELSE "buy")

\* a buy limit at 1 for 2 units meets sells at 1 and at 2 of another user: it
\* trades with the sell at 1 and rests partly filled beside the sell at 2
C8_Witness ==
    /\ Len(orders) = 3 /\ Len(trades) = 1
    /\ orders[1].side = "sell" /\ orders[2].side = "sell"
    /\ {orders[1].price, orders[2].price} = {1, 2}
    /\ orders[3].side = "buy" /\ orders[3].order_type = "limit"
    /\ orders[3].price = 1 /\ orders[3].quantity = 2
    /\ orders[3].user # orders[1].user /\ orders[3].user # orders[2].user
    /\ orders[3].status = "partial"
    /\ \E i \in {1, 2} : orders[i].price = 2 /\ orders[i].status = "open"
    /\ trades[1].price = 1

\* C9: no trade has the same user as buyer and seller; a CreateOrder leaves
\* every earlier order of the incoming order's user unchanged.
C9_NoSelfTrade ==
    [][/\ \A i \in 1..Len(trades') : trades'[i].buyer # trades'[i].seller
       /\ (last'.op = "create_order" /\ last'.err = "" /\ Len(orders') > Len(orders)) =>
             \A i \in 1..Len(orders) :
                 orders[i].user = orders'[Len(orders')].user => orders'[i] = orders[i]]_vars

\* the incoming buy skipped the user's own resting sell, which was first in
\* priority, and traded with the next counter-order
C9_Witness ==
    /\ Len(orders) = 3
    /\ orders[1].user = orders[3].user /\ orders[2].user # orders[3].user
    /\ orders[1].side = "sell" /\ orders[2].side = "sell" /\ orders[3].side = "buy"
    /\ orders[1].price = orders[2].price
    /\ orders[1].status = "open" /\ orders[1].filled_quantity = 0
    /\ orders[2].status = "filled" /\ orders[3].status = "filled"
    /\ Len(trades) = 1

\* C10: a trade of quantity q at price p changes exactly: buyer quote locked
\* -q*p, buyer base available +(q - buyerFee), seller base locked -q, seller
\* quote available +(q*p - sellerFee); the resting side pays maker_fee, the
\* incoming side taker_fee; buyerFee = q*rate, sellerFee = q*p*rate.
C10_Settlement ==
    \A k \in 1..Len(last.settles) :
        LET s == last.settles[k]
            t == s.trade
            q == t.quantity * Scale
            qp == t.quantity * t.price * Scale
            buyerRate == IF t.buy_order = last.order THEN TakerFeePct ELSE MakerFeePct
            sellerRate == IF t.sell_order = last.order THEN TakerFeePct ELSE MakerFeePct
            buyerFee == (q * buyerRate) \div 100
            sellerFee == (qp * sellerRate) \div 100
            expected ==
                [s.before EXCEPT
                    ![t.buyer][quote_currency].locked = @ - qp,
                    ![t.buyer][base_currency].available = @ + (q - buyerFee),
                    ![t.seller][base_currency].locked = @ - q,
                    ![t.seller][quote_currency].available = @ + (qp - sellerFee)]
        IN /\ t.buyer # t.seller
           /\ {t.buy_order, t.sell_order} \cap {last.order} # {}
           /\ \A u \in Users, c \in Currencies :
                 /\ s.after[u][c].available = expected[u][c].available
                 /\ s.after[u][c].locked = expected[u][c].locked

\* the scenario of the full match: a resting sell of 2 at 1 filled by a buy
\* limit at 2, the seller paying the maker rate and the buyer the taker rate
C10_Witness ==
    /\ Len(last.settles) = 1
    /\ LET t == last.settles[1].trade
       IN /\ t.quantity = 2 /\ t.price = 1 /\ ~t.buyer_is_maker
          /\ TakerOf(t).price = 2
          /\ MakerOf(t).status = "filled" /\ TakerOf(t).status = "filled"
          /\ t.buyer_fee # t.seller_fee

\* the reservation of the unfilled remainder of an order
Reservation(order) ==
    IF order.side = "buy" THEN Amt(remaining_quantity(order) * order.price)
                          ELSE Amt(remaining_quantity(order))

\* C11: CancelOrder on an open or partial order succeeds, sets its status to
\* cancelled and moves exactly the reservation of the unfilled remainder
\* ((quantity - filled_quantity) * price of quote for a buy, quantity -
\* filled_quantity of base for a sell) from locked to available.
C11_CancelUnlocksRemainder ==
    [][\A id \in 1..Len(orders) :
          (/\ last'.op = "cancel_order" /\ last'.order = id
           /\ orders[id].status \in {"open", "partial"})
          => LET o == orders[id]
                 c == LockCurrency(o.side)
             IN /\ last'.err = ""
                /\ orders'[id].status = "cancelled"
                /\ balances'[o.user][c].locked
                      = balances[o.user][c].locked - Reservation(o)
                /\ balances'[o.user][c].available
                      = balances[o.user][c].available + Reservation(o)]_vars

\* the trades recorded for an order
TradesOf(id) == {t \in TradeRows : t.buy_order = id \/ t.sell_order = id}

\* C12: after CreateOrder with time_in_force IOC returns, the order is filled
\* or cancelled, never open or partial, and when it is cancelled the
\* reservation of its unfilled remainder has been unlocked.
C12_IOCRemainderCancelled ==
    [][(/\ last'.op = "create_order" /\ last'.err = ""
        /\ Len(orders') = Len(orders) + 1
        /\ orders'[Len(orders')].time_in_force = "IOC")
       => LET o == orders'[Len(orders')]
          IN /\ o.status \in {"filled", "cancelled"}
             /\ (o.status = "cancelled" /\ remaining_quantity(o) > 0) =>
                   \E i \in (Len(ledger) + 1)..Len(ledger') :
                       /\ ledger'[i].entry_type = "order_unlock"
                       /\ ledger'[i].reference_id = o.id
                       /\ ledger'[i].amount = Reservation(o)]_vars

\* C13: an order placed with time_in_force FOK is either filled completely or
\* cancelled as a whole: status cancelled, filled_quantity 0, no trade.
C13_FOKAllOrNothing ==
    \A i \in 1..Len(orders) :
        orders[i].time_in_force = "FOK" =>
            \/ orders[i].status = "filled"
                  /\ orders[i].filled_quantity = orders[i].quantity
            \/ orders[i].status = "cancelled"
                  /\ orders[i].filled_quantity = 0
                  /\ TradesOf(i) = {}

\* C18: every order of type market has a null price, so no market order is
\* returned as a resting order by get_matching_orders, get_best_bid or
\* get_best_ask.
C18_MarketOrderHasNoPrice ==
    /\ \A o \in OrderRows(DB) : o.order_type = "market" => o.price = Null
    /\ \A side \in Sides : \A o \in Resting(DB, side) : o.order_type # "market"

\* the matching loop of a CreateOrder request, run on the rows as they are
\* after the funds were locked and the order row was created
LoopOf(i) ==
    Let(_lock_funds_for_order(DB, i.user, i.side, i.quantity, i.price,
                              i.order_type), LAMBDA r1 :
    IF r1.err # "" THEN R(r1.err, DB, <<>>) ELSE
    Let(NewOrder(Len(orders) + 1, i.user, i.order_type, i.side, "open",
                 i.time_in_force, i.quantity, i.price), LAMBDA order :
        _match_order([r1.db EXCEPT !.orders = Append(@, order)], order)))

\* C16: when the settlement of the k-th match of a CreateOrder fails, the
\* trades, balance changes and fill updates of the k-1 earlier matches of the
\* same loop remain recorded after the request.
C16_EarlierMatchesKept ==
    \A i \in OrderInputs :
        Let(LoopOf(i), LAMBDA loop :
            (loop.err # "" /\ Len(loop.settles) > 0) =>
                Let(create_order(DB, i.user, i.order_type, i.side, i.quantity,
                                 i.price, i.time_in_force), LAMBDA r :
                    \A k \in 1..Len(loop.settles) :
                        /\ \E t \in 1..Len(r.db.trades) :
                               r.db.trades[t] = loop.settles[k].trade
                        /\ r.db.balances # balances))

\* the five operations of the ledger service and the amounts they are tried with
LedgerOps == {"credit", "debit", "lock", "unlock", "deduct_locked"}

LedgerAmounts == {0 - Scale, 0, 1, Scale, (BaseFund + QuoteFund + 1) * Scale}

LedgerCall(op, db, user, currency, amount) ==
    CASE op = "credit" -> credit_balance(db, user, currency, amount, "deposit", Null, Null)
      [] op = "debit"  -> debit_balance(db, user, currency, amount, "withdrawal", Null, Null)
      [] op = "lock"   -> lock_balance(db, user, currency, amount, "order", Null)
      [] op = "unlock" -> unlock_balance(db, user, currency, amount, "order", Null)
      [] op = "deduct_locked" ->
             deduct_locked(db, user, currency, amount, "trade", "trade", Null)

\* C17: a ledger operation with amount <= 0 fails with InvalidAmount, a debit
\* or lock of more than is available fails with InsufficientBalance, an unlock
\* or deduction of more than is locked fails with InsufficientLocked, and every
\* failing operation leaves the balances and the ledger as they were.
C17_FailedLedgerOpNoChange ==
    \A op \in LedgerOps, user \in Users, currency \in Currencies,
       amount \in LedgerAmounts :
        Let(LedgerCall(op, DB, user, currency, amount), LAMBDA r :
            /\ amount <= 0 => r.err = "InvalidAmount"
            /\ (amount > 0 /\ op \in {"debit", "lock"}
                 /\ balances[user][currency].available < amount)
                  => r.err = "InsufficientBalance"
            /\ (amount > 0 /\ op \in {"unlock", "deduct_locked"}
                 /\ balances[user][currency].locked < amount)
                  => r.err = "InsufficientLocked"
            /\ r.err # "" => (r.db.balances = balances /\ r.db.ledger = ledger))

\* the cancellation of a resting buy has just asked the ledger to unlock more
\* than the buyer has locked: it was refused and the reservation is still there
C17_Witness ==
    /\ last.op = "cancel_order" /\ last.err = "InsufficientLocked"
    /\ orders[last.order].status = "open"
    /\ balances[orders[last.order].user][quote_currency].locked > 0
    /\ balances[orders[last.order].user][quote_currency].locked
         < Reservation(orders[last.order])

\* the pending stop and take-profit orders
PendingStops ==
    {i \in 1..Len(orders) :
        /\ orders[i].status = "pending"
        /\ orders[i].order_type \in {"stop_loss", "stop_limit", "take_profit",
                                     "take_profit_limit"}}

TriggerCondition(o, p) ==
    CASE o.order_type \in {"stop_loss", "stop_limit"} /\ o.side = "sell" ->
             p <= o.stop_price
      [] o.order_type \in {"stop_loss", "stop_limit"} /\ o.side = "buy" ->
             p >= o.stop_price
      [] o.order_type \in {"take_profit", "take_profit_limit"} /\ o.side = "sell" ->
             p >= o.take_profit_price
      [] o.order_type \in {"take_profit", "take_profit_limit"} /\ o.side = "buy" ->
             p <= o.take_profit_price

\* C20: trigger evaluation at price p triggers a pending stop or take-profit
\* order exactly when: stop sell p <= stop_price, stop buy p >= stop_price,
\* take-profit sell p >= take_profit_price, take-profit buy
\* p <= take_profit_price; the periodic evaluation at the last price promotes
\* exactly the orders whose condition holds.
C20_TriggerConditions ==
    [][/\ \A i \in PendingStops, p \in Prices :
              should_trigger(orders[i], p).fire <=> TriggerCondition(orders[i], p)
       /\ last'.op = "check_stop_orders" =>
              \A i \in PendingStops :
                  /\ (orders'[i].status # "pending")
                        <=> TriggerCondition(orders[i], last_price)
                  /\ (orders'[i].triggered_at # Null)
                        <=> TriggerCondition(orders[i], last_price)]_vars

\* the periodic evaluation has just promoted a buy stop whose stop price the
\* last price had reached
C20_Witness ==
    /\ last.op = "check_stop_orders"
    /\ \E i \in 1..Len(orders) :
          /\ orders[i].triggered_at # Null
          /\ orders[i].stop_price # Null
          /\ orders[i].side = "buy"
          /\ orders[i].status = "open"
          /\ last_price >= orders[i].stop_price

\* the OCO pairs: a limit leg and a stop leg that name each other
OCOPairs ==
    {pair \in (1..Len(orders)) \X (1..Len(orders)) :
        /\ orders[pair[1]].parent_order = pair[2]
        /\ orders[pair[2]].parent_order = pair[1]
        /\ orders[pair[2]].stop_price # Null}

\* C15: when one leg of an OCO pair has been filled or has triggered, its
\* sibling has been cancelled: no state has one leg filled or triggered and
\* the other leg still pending, open or partial.
C15_OCOSiblingCancelled ==
    \A pair \in OCOPairs :
        LET limit_order == orders[pair[1]]
            stop_order == orders[pair[2]]
        IN /\ (stop_order.triggered_at # Null \/ stop_order.status = "filled")
                 => limit_order.status \notin {"pending", "open", "partial"}
           /\ limit_order.status = "filled"
                 => stop_order.status \notin {"pending", "open", "partial"}

\* C14: once an order is filled, cancelled or expired its status never
\* changes again, whatever the interleaving of matching, cancellation,
\* trigger evaluation and stop-order cancellation.
C14_StatusMonotonic ==
    [][\A id \in 1..Len(orders) :
          orders[id].status \in {"filled", "cancelled", "expired"}
             => orders'[id].status = orders[id].status]_vars

\* C19: every operation that changes the orders of the pair leaves no cached
\* order book behind, for any depth a caller can request.
C19_CacheInvalidated ==
    [][orders' # orders => \A depth \in Depths : depth \notin DOMAIN cache']_vars

\* the orders of a user that are open or partial
LiveOrders(user) ==
    {o \in OrderRows(DB) : o.user = user /\ o.status \in {"open", "partial"}}

\* C29: a user with no open or partial order has nothing locked, in any
\* currency: the funds locked for an order do not outlive it.
C29_NoLockWithoutOrder ==
    \A user \in Users :
        LiveOrders(user) = {} =>
            \A currency \in Currencies : balances[user][currency].locked = 0

\* the reservation of the remainders of a user's resting priced orders
RECURSIVE SumReservations(_)
SumReservations(S) ==
    IF S = {} THEN 0
    ELSE LET o == CHOOSE x \in S : TRUE
         IN Reservation(o) + SumReservations(S \ {o})

Reserved(user, currency) ==
    SumReservations({o \in LiveOrders(user) :
                        o.price # Null /\ LockCurrency(o.side) = currency})

\* C30: for every user and currency, locked covers the reservations of the
\* remainders of the user's open or partial priced orders.
C30_RestingOrdersBacked ==
    \A user \in Users, currency \in Currencies :
        balances[user][currency].locked >= Reserved(user, currency)

\* a resting order m that the incoming order o could still trade with
Eligible(m, o) ==
    /\ m.side # o.side
    /\ m.user # o.user
    /\ o.order_type = "limit" =>
          IF o.side = "buy" THEN m.price <= o.price ELSE m.price >= o.price

\* C27: when CreateOrder returns for an incoming order that still has
\* remaining quantity, no resting order of another user on the opposite side
\* satisfies the incoming order's price filter.
C27_MatchedToExhaustion ==
    [][(/\ last'.op = "create_order" /\ last'.err = ""
        /\ Len(orders') = Len(orders) + 1
        /\ remaining_quantity(orders'[Len(orders')]) > 0)
       => \A side \in Sides :
             \A m \in Resting([orders |-> orders'], side) :
                 ~Eligible(m, orders'[Len(orders')])]_vars

\* a buy of two has taken the one unit offered within its limit and rests
\* partial, while a dearer sell of another user stays on the book
C27_Witness ==
    /\ last.op = "create_order" /\ last.err = ""
    /\ Len(last.settles) > 0
    /\ orders[last.order].status = "partial"
    /\ orders[last.order].side = "buy"
    /\ \E m \in Resting(DB, "sell") :
          m.user # orders[last.order].user /\ m.price > orders[last.order].price

\* the order type a conditional order is promoted to
BaseType(order_type) ==
    IF order_type \in {"stop_loss", "take_profit", "trailing_stop"}
    THEN "market" ELSE "limit"

\* C22: trigger evaluation promotes a conditional order only from pending and
\* only when its trigger condition is met, to status open and to its base
\* type; it never changes the status or type of any other order, and no
\* other operation promotes.
C22_PromotionOnlyFromPending ==
    [][\A id \in 1..Len(orders) :
          LET o == orders[id]
              n == orders'[id]
              promoted == o.triggered_at = Null /\ n.triggered_at # Null
          IN /\ promoted =>
                  /\ last'.op = "check_stop_orders"
                  /\ o.status = "pending" /\ is_stop_order(o)
                  /\ should_trigger(o, last_price).fire
                  /\ n.status = "open"
                  /\ n.order_type = BaseType(o.order_type)
             /\ (last'.op = "check_stop_orders" /\ ~promoted) =>
                  (n.status = o.status /\ n.order_type = o.order_type)
             /\ (o.status = "pending" /\ n.status = "open") => promoted]_vars

\* the evaluation has just promoted a stop-limit order to an open limit order
\* and left the filled orders of the trade that set the price as they were
C22_Witness ==
    /\ last.op = "check_stop_orders"
    /\ \E id \in 1..Len(orders) :
          /\ orders[id].triggered_at # Null
          /\ orders[id].order_type = "limit"
          /\ orders[id].status = "open"
          /\ orders[id].price # Null
    /\ \E id \in 1..Len(orders) :
          orders[id].status = "filled" /\ orders[id].triggered_at = Null

Max(a, b) == IF a >= b THEN a ELSE b

\* the pending trailing stops
PendingTrailing ==
    {i \in 1..Len(orders) :
        orders[i].status = "pending" /\ orders[i].order_type = "trailing_stop"}

\* a pending sell trailing stop of 5 percent that has seen 100
ExampleTrailing ==
    [NewOrder(1, "u1", "trailing_stop", "sell", "pending", "GTC", 1, Null)
     EXCEPT !.trailing_stop_percent = 5, !.highest_price_seen = 100]

\* C21: a trailing stop starts with the price at its creation as its extreme;
\* each evaluated tick p leaves the extreme at the maximum (sell) or minimum
\* (buy) of the extreme so far and p, and triggers the order exactly when p
\* has retraced by trailing_percent from it (sell: p <= highest*(1-pct/100),
\* buy: p >= lowest*(1+pct/100)); a sell with pct 5 and highest 100 triggers
\* on a tick of 94.
C21_TrailingStop ==
    [][/\ should_trigger(ExampleTrailing, 94).fire
       /\ last'.op = "create_trailing_stop_order" /\ last'.err = "" =>
              LET n == orders'[Len(orders')]
              IN IF n.side = "sell" THEN n.highest_price_seen = last_price
                                    ELSE n.lowest_price_seen = last_price
       /\ last'.op = "update_trailing_stops" =>
              \A i \in PendingTrailing :
                  LET o == orders[i]
                      n == orders'[i]
                      p == last'.price
                      pct == o.trailing_stop_percent
                  IN IF o.side = "sell"
                     THEN /\ n.highest_price_seen = Max(o.highest_price_seen, p)
                          /\ (n.status = "open")
                                <=> (p * 100 <= n.highest_price_seen * (100 - pct))
                          /\ n.status \in {"open", "pending"}
                     ELSE /\ n.lowest_price_seen = Min(o.lowest_price_seen, p)
                          /\ (n.status = "open")
                                <=> (p * 100 >= n.lowest_price_seen * (100 + pct))
                          /\ n.status \in {"open", "pending"}]_vars

\* a sell trailing stop created at 100 or below has followed the price up to
\* 100 and has just been triggered by the tick of 94
C21_Witness ==
    /\ last.op = "update_trailing_stops" /\ last.price = 94
    /\ \E i \in 1..Len(orders) :
          /\ orders[i].side = "sell"
          /\ orders[i].trailing_stop_percent = 5
          /\ orders[i].highest_price_seen = 100
          /\ orders[i].triggered_at # Null
          /\ orders[i].order_type = "market" /\ orders[i].status = "open"

\* C28: when the processing of the triggered orders runs while an eligible
\* counter-order of another user rests in the book, a trade is produced for
\* the triggered order.
C28_TriggeredOrdersMatched ==
    [][last'.op = "process_triggered_orders" =>
          \A id \in 1..Len(orders) :
              (/\ orders[id].status = "open"
               /\ orders[id].triggered_at # Null
               /\ \E side \in Sides : \E m \in Resting(DB, side) :
                      Eligible(m, orders[id]))
              => \E t \in 1..Len(trades') :
                    trades'[t].buy_order = id \/ trades'[t].sell_order = id]_vars

\* C26: a stop-order cancellation and a trigger evaluation of the same order
\* never both take effect: the cancellation of an order that has been
\* triggered is rejected and changes nothing, and an order it cancels has
\* never been triggered.
C26_TriggerOrCancel ==
    [][last'.op = "cancel_stop_order" =>
          LET o == orders[last'.order]
              n == orders'[last'.order]
          IN IF o.triggered_at # Null
             THEN last'.err # "" /\ n = o
             ELSE last'.err = "" =>
                     /\ n.status = "cancelled"
                     /\ n.order_type = o.order_type
                     /\ n.triggered_at = Null]_vars

\* ---- State machine with concurrent ledger transactions ------------------------
\* the amounts the concurrent ledger operations are tried with
RaceAmounts == {Scale, 3 * Scale}

\* no transaction ever holds the balance row
NoBalanceRowLocked(user, currency) == FALSE

\* select_for_update in get_or_create_balance: the balance row is locked by a
\* transaction in flight
BalanceRowLocked(user, currency) ==
    \E t \in in_flight :
        t.state = "holding" /\ t.user = user /\ t.currency = currency

\* the ledger operations committed or in flight since the deposits
LedgerOpsIssued ==
    Len(ledger) - Cardinality(Users \X Currencies) + Cardinality(in_flight)

\* a transaction calls a ledger operation with a positive amount; its
\* SELECT ... FOR UPDATE of the balance row has not returned yet
RequestLedgerOp ==
    /\ LedgerOpsIssued < MaxLedgerOps
    /\ Cardinality(in_flight) < MaxLedgerTxns
    /\ \E op \in LedgerOps, user \in Users, currency \in Currencies,
          amount \in RaceAmounts :
        in_flight' = in_flight \cup
           {[txn |-> CHOOSE n \in 1..MaxLedgerTxns :
                        \A t \in in_flight : t.txn # n,
             state |-> "waiting", op |-> op, user |-> user,
             currency |-> currency, amount |-> amount,
             balance |-> EmptyDB.balances[user][currency]]}
    /\ last' = [NoCall EXCEPT !.op = "request_ledger_op"]
    /\ UNCHANGED <<balances, ledger, orders, trades, last_price, cache, fetched>>

\* get_or_create_balance returns the row and holds its lock; it waits as long
\* as another transaction holds it
AcquireBalance ==
    \E t \in in_flight :
        /\ t.state = "waiting"
        /\ ~BalanceRowLocked(t.user, t.currency)
        /\ in_flight' = (in_flight \ {t}) \cup
               {[t EXCEPT !.state = "holding",
                          !.balance = get_or_create_balance(DB, t.user, t.currency)]}
        /\ last' = [NoCall EXCEPT !.op = "acquire_balance"]
        /\ UNCHANGED <<balances, ledger, orders, trades, last_price, cache, fetched>>

\* the operation checks and updates the Balance object it has read, saves it,
\* writes the ledger entry, and the transaction ends, which releases the lock
FinishLedgerOp ==
    \E t \in in_flight :
        /\ t.state = "holding"
        /\ CommitRows(LedgerCall(t.op,
                                 [DB EXCEPT !.balances[t.user][t.currency] = t.balance],
                                 t.user, t.currency, t.amount),
                      [NoCall EXCEPT !.op = "ledger_op"])
        /\ in_flight' = in_flight \ {t}
        /\ UNCHANGED fetched

NextLedgerRace ==
    \/ RequestLedgerOp
    \/ AcquireBalance
    \/ FinishLedgerOp

SpecLedgerRace == Init /\ [][NextLedgerRace]_vars

\* ---- State machine with concurrent create_order requests -----------------------
\* a maker and two takers that do not share a balance row
RaceUsers == Users \cup {"u3"}

EmptyRaceDB ==
    [EmptyDB EXCEPT !.balances = [u \in RaceUsers |-> [c \in Currencies |->
                                     [available |-> 0, locked |-> 0, version |-> 1]]]]

InitMatchRace ==
    LET db == Deposits(EmptyRaceDB, RaceUsers \X Currencies)
    IN /\ balances = db.balances
       /\ ledger = db.ledger
       /\ orders = db.orders
       /\ trades = db.trades
       /\ last_price = db.last_price
       /\ cache = <<>>
       /\ fetched = {}
       /\ in_flight = {}
       /\ last = NoCall

\* create_order of a GTC limit order whose _match_order has already read
\* matching_orders
create_order_read(db, user, side, quantity, price, matching_orders) ==
    Let(_lock_funds_for_order(db, user, side, quantity, price, "limit"),
        LAMBDA r1 :
    IF r1.err # "" THEN R(r1.err, db, <<>>) ELSE
    Let(NewOrder(Len(db.orders) + 1, user, "limit", side, "open", "GTC",
                 quantity, price), LAMBDA order :
    Let(MatchLoop([r1.db EXCEPT !.orders = Append(@, order)], order,
                  matching_orders, 1, <<>>),
        LAMBDA r2 : IF r2.err # "" THEN R(r2.err, db, <<>>) ELSE r2)))

\* the balance row a create_order in flight has locked for its reservation
FundsRowLocked(user, currency) ==
    \E t \in in_flight : t.user = user /\ LockCurrency(t.side) = currency

\* a create_order request has locked its funds, inserted its order and read
\* the list of matching orders; nothing of it is committed yet, and the list
\* is read without row locks
BeginCreateOrder ==
    /\ Len(orders) + Cardinality(in_flight) < MaxRaceOrders
    /\ Cardinality(in_flight) < MaxCreateTxns
    /\ \E user \in RaceUsers, side \in Sides, quantity \in {1},
          price \in Prices :
        /\ ~FundsRowLocked(user, LockCurrency(side))
        /\ in_flight' = in_flight \cup
               {[txn |-> CHOOSE n \in 1..MaxCreateTxns :
                            \A t \in in_flight : t.txn # n,
                 user |-> user, side |-> side, quantity |-> quantity,
                 price |-> price,
                 matching_orders |-> get_matching_orders(DB, side, price, FALSE)]}
    /\ last' = [NoCall EXCEPT !.op = "begin_create_order"]
    /\ UNCHANGED <<balances, ledger, orders, trades, last_price, cache, fetched>>

\* the loop of _match_order runs over the list read and the request commits;
\* a settlement that needs a balance row locked by another request waits
FinishCreateOrder ==
    \E t \in in_flight :
        Let(create_order_read(DB, t.user, t.side, t.quantity, t.price,
                              t.matching_orders),
            LAMBDA r :
               /\ \A w \in in_flight \ {t} :
                      r.db.balances[w.user][LockCurrency(w.side)]
                          = balances[w.user][LockCurrency(w.side)]
               /\ CommitRows(r, [NoCall EXCEPT !.op = "create_order",
                                    !.order = IF r.err = "" THEN Len(orders) + 1
                                              ELSE Null,
                                    !.settles = r.settles])
               /\ in_flight' = in_flight \ {t}
               /\ UNCHANGED fetched)

NextMatchRace ==
    \/ BeginCreateOrder
    \/ FinishCreateOrder

SpecMatchRace == InitMatchRace /\ [][NextMatchRace]_vars

\* the total quantity of a set of Trade rows
RECURSIVE TradedQuantity(_)
TradedQuantity(T) ==
    IF T = {} THEN 0
    ELSE LET t == CHOOSE x \in T : TRUE
         IN t.quantity + TradedQuantity(T \ {t})

\* C23: when create_order requests on the pair run concurrently, the total
\* quantity of the trades recorded against an order never exceeds the
\* quantity of that order.
C23_MakerFilledAtMostOnce ==
    \A id \in 1..Len(orders) : TradedQuantity(TradesOf(id)) <= orders[id].quantity

\* C24: concurrent ledger transactions on one balance row are serialized by
\* the row lock: the operation a transaction commits has the outcome (error or
\* new balances and ledger entry) of that operation applied to the state
\* committed just before, so no update is lost and every sufficiency check
\* sees what was committed before it.
C24_NoLostUpdate ==
    [][\A t \in in_flight :
          (t.state = "holding" /\ t \notin in_flight') =>
              Let(LedgerCall(t.op, DB, t.user, t.currency, t.amount),
                  LAMBDA r :
                      /\ last'.err = r.err
                      /\ balances' = r.db.balances
                      /\ ledger' = r.db.ledger)]_vars

\* a transaction has just committed a change to a balance row while another
\* transaction, which asked for the same row, waits for it and will fail its
\* sufficiency check on the committed balance although the balance before
\* that commit would have sufficed
C24_Witness ==
    /\ last.op = "ledger_op"
    /\ last.err = ""
    /\ \E t \in in_flight :
          /\ t.state = "waiting"
          /\ t.user = ledger[Len(ledger)].user
          /\ t.currency = ledger[Len(ledger)].currency
          /\ t.op \in {"debit", "lock"}
          /\ t.amount > balances[t.user][t.currency].available
          /\ t.amount <= ledger[Len(ledger)].balance_before

\* C25: under overlapping trigger evaluations every conditional order is
\* triggered at most once: an order in the triggered result of an evaluation
\* was still pending and untriggered when that evaluation committed, and is
\* open and triggered afterwards.
C25_TriggeredOnce ==
    [][last'.op = "evaluate" =>
          \A id \in last'.triggered :
              /\ orders[id].status = "pending"
              /\ orders[id].triggered_at = Null
              /\ orders'[id].status = "open"
              /\ orders'[id].triggered_at # Null]_vars

\* an evaluation has just triggered an order while another evaluation of the
\* pair, started before the commit, waits for the row lock
C25_Witness ==
    /\ last.op = "evaluate"
    /\ last.triggered # {}
    /\ \E t \in in_flight : t.state = "waiting"
    /\ \A id \in last.triggered : orders[id].triggered_at # Null

====
